---- MODULE Spec2Model ----
(***************************************************************************)
(* Driver server actions (src/app/driver/actions.tsx): updateStopStatus,   *)
(* savePOD, uploadToBlob and updateDriverPosition, each modelled as an     *)
(* async function whose steps are the stretches of code between two        *)
(* awaits.  The collaborators (identity provider, durable store, blob      *)
(* store, cache invalidation, notification endpoint) answer                *)
(* nondeterministically: a value, an error value, or a raise.              *)
(***************************************************************************)
EXTENDS Integers, Sequences, FiniteSets, TLC

VARIABLES
  pc,          \* per request: the await the invocation is suspended at
  op,          \* per request: the exported function that was called
  args,        \* per request: its arguments
  user,        \* per request: `user` of getUser()
  blob,        \* per request: `blob` of uploadToBlob
  retryCount,  \* per request: `retryCount`
  lastError,   \* per request: `lastError`
  result,      \* per request: the value the call resolved to
  log,         \* per request: collaborator calls made so far, in order
  tasks,       \* per request: the detached fetch("/api/pod-email") promises
  db,          \* the durable store and the blob store, with the order in
               \* which they applied the writes (journal)
  env          \* process.env.NEXT_PUBLIC_ENABLE_POD_EMAIL

vars == <<pc, op, args, user, blob, retryCount, lastError, result, log, tasks, db, env>>

----------------------------------------------------------------------------
(* Values *)

Requests == {"r1", "r2"}

Undefined == "undefined"

Null == "null"

Ops == {"updateStopStatus", "savePOD", "uploadToBlob", "updateDriverPosition"}

\* messages an error object can carry (Undefined: no message field)
Msgs == {Undefined, "", "timeout"}

Err(kind, m) == [kind |-> kind, message |-> m]

\* `error: null` of a collaborator result, and the initial `lastError`
NoError == Err("none", Undefined)

ErrorValues == {Err("value", m) : m \in Msgs}

Raised == {Err("raised", m) : m \in Msgs}

\* const maxRetries = 3
maxRetries == 3

NoArgs == [none |-> TRUE]

Pending == [pending |-> TRUE]

\* no Blob: `blob` before it is assigned, and a decode that throws
NoBlob == [bytes |-> -1, type |-> Undefined]

\* `data: null` of an insert(...).select("id").single()
NoRow == [id |-> -1]

\* a write the store applied, and the request it came from
Applied(tbl, i) == [tbl |-> tbl, by |-> i]

Entry(ev, tgt, ok, err, val) == [ev |-> ev, tgt |-> tgt, ok |-> ok, err |-> err, val |-> val]

----------------------------------------------------------------------------
(* Pure pieces of the code *)

\* if (authError || !user)
AuthFailedOnErrorOnly(authError, u) == authError # NoError

AuthFailed(authError, u) == authError # NoError \/ u = Null

\* if (!error)                                   -- updateStopStatus
UpdateOkAlways(error) == TRUE

UpdateOk(error) == error = NoError

\* if (!error && podData)                        -- savePOD
InsertOk(error, podData) == error = NoError /\ podData # Null

\* 1000 * retryCount
BackoffMs(rc) == 1000 * rc

\* if (retryCount < maxRetries)  -- the guard of both backoff sleeps
SleepsAfterFinal(rc) == rc <= maxRetries

Sleeps(rc) == rc < maxRetries

\* while (retryCount < maxRetries)
WhileCond(rc) == rc < maxRetries

\* lastError?.message || "Network error"
MessageOf(e) == IF e.message \in {Undefined, ""} THEN "Network error" ELSE e.message

\* lastError = error / lastError = err
KeepFirstError(old, e) == IF old = NoError THEN e ELSE old

NextLastError(old, e) == e

AuthExpired(o) ==
  [success |-> FALSE,
   error |-> IF o = "updateDriverPosition" THEN "Authentication required"
             ELSE "Your session has expired. Please log in again.",
   code |-> "AUTH_EXPIRED"]

\* JavaScript truthiness of a string-valued expression
Truthy(x) == x \notin {Undefined, Null, ""}

\* const podNotes = recipientName ? `Recipient: ${recipientName}\n${notes || ""}` : notes
PodNotesNoDefault(recipientName, notes) ==
  IF Truthy(recipientName)
    THEN "Recipient: " \o recipientName \o "\n" \o notes
    ELSE notes

PodNotes(recipientName, notes) ==
  IF Truthy(recipientName)
    THEN "Recipient: " \o recipientName \o "\n" \o (IF Truthy(notes) THEN notes ELSE "")
    ELSE notes

\* if (podData.id && process.env.NEXT_PUBLIC_ENABLE_POD_EMAIL === "true")
EmailEnabled(podData, flag) == podData.id # 0 /\ flag = "true"

\* the return after the while loop
ExhaustedLeaks(o, e) ==
  IF o = "updateStopStatus"
    THEN [success |-> FALSE, error |-> "Failed to update order status: " \o MessageOf(e)]
  ELSE IF o = "savePOD"
    THEN [success |-> FALSE, error |-> "Failed to save proof of delivery: " \o MessageOf(e)]
  ELSE [url |-> Null, error |-> "Failed to upload file: " \o MessageOf(e)]

Exhausted(o, e) ==
  IF o = "updateStopStatus"
    THEN [success |-> FALSE, error |-> "Failed to update order status: " \o MessageOf(e)]
  ELSE IF o = "savePOD"
    THEN [success |-> FALSE, error |-> "Failed to save proof of delivery: " \o MessageOf(e)]
  ELSE [url |-> Null, error |-> "Failed to upload file after multiple attempts"]

\* the value returned by the outermost catch of each function
Unexpected(o) ==
  IF o \in {"updateStopStatus", "savePOD"}
    THEN [success |-> FALSE, error |-> "An unexpected error occurred. Please try again."]
  ELSE IF o = "updateDriverPosition"
    THEN [success |-> FALSE, error |-> "An unexpected error occurred"]
  ELSE [url |-> Null, error |-> "Failed to upload file"]

\* the outermost try/catch: where a raise that reaches it leaves the call
OuterCatchRethrows(o) == [pc |-> "raised", result |-> Pending]

OuterCatch(o) == [pc |-> "done", result |-> Unexpected(o)]

----------------------------------------------------------------------------
(* Arguments *)

OrderIds == {"o1"}

Statuses == {"delivered", "failed"}

Notes == {Undefined, "left at door"}

\* `accuracy` not supplied by the caller, and the `null` sent in its place
NotSupplied == -1

NullNumber == -2

Accuracies == {NotSupplied, 0, 5}

\* accuracy || null
AccuracyOrNull(a) == IF a \in {NotSupplied, 0} THEN NullNumber ELSE a

RecipientNames == {Undefined, "", "Jane Doe"}

PodNoteTexts == {Undefined, "", "left at door"}

ContentTypes == {"image/png", "image/jpeg"}

\* A string handed to uploadToBlob is a sequence of lexemes: the data-URL
\* scheme marker, a media type, the base64 marker, the comma, one character of
\* the base64 alphabet, the padding character, one character outside the
\* base64 alphabet.
BodyTokens == {"A", "=", "!"}

MaxBody == 3

Bodies == UNION {[1..n -> BodyTokens] : n \in 0..MaxBody}

Prefixes ==
  {<<>>, <<"A", ",">>, <<"data:", ",">>, <<"data:", ";base64", ",">>,
   <<"data:", "image/gif", ";base64", ",">>, <<"data:", ";base64">>}

UploadInputs == {p \o b : p \in Prefixes, b \in Bodies}

ArgsOf(o) ==
  IF o = "updateStopStatus"
    THEN {[orderId |-> oid, status |-> s, notes |-> n] :
            oid \in OrderIds, s \in Statuses, n \in Notes}
  ELSE IF o = "savePOD"
    THEN {[orderId |-> oid, photoUrl |-> "photo", signatureUrl |-> "signature",
           notes |-> n, recipientName |-> r] :
            oid \in OrderIds, n \in PodNoteTexts, r \in RecipientNames}
  ELSE IF o = "uploadToBlob"
    THEN {[base64Data |-> d, filename |-> "pod.png", contentType |-> c] :
            d \in UploadInputs, c \in ContentTypes}
  ELSE {[lat |-> 1, lng |-> 2, accuracy |-> a] : a \in Accuracies}

----------------------------------------------------------------------------
(* Payload decoding, as the platform functions used by uploadToBlob do it *)

\* number of characters of a lexeme
CharLen(t) ==
  IF t = "data:" THEN 5 ELSE IF t = ";base64" THEN 7 ELSE IF t = "image/gif" THEN 9 ELSE 1

RECURSIVE StrLen(_)
StrLen(s) == IF s = <<>> THEN 0 ELSE CharLen(Head(s)) + StrLen(Tail(s))

\* s.indexOf(","), counted from 1; 0 when there is none
RECURSIVE IndexOfComma(_)
IndexOfComma(s) ==
  IF s = <<>> THEN 0
  ELSE IF Head(s) = "," THEN 1
  ELSE LET r == IndexOfComma(Tail(s)) IN IF r = 0 THEN 0 ELSE r + 1

\* base64Data.startsWith('data:')
StartsWithData(s) == Len(s) > 0 /\ s[1] = "data:"

\* base64Data.split(',')[1] || base64Data
RawPayload(s) ==
  LET c1 == IndexOfComma(s)
      rest == SubSeq(s, c1 + 1, Len(s))
      c2 == IndexOfComma(rest)
      seg == IF c2 = 0 THEN rest ELSE SubSeq(rest, 1, c2 - 1)
  IN IF c1 = 0 \/ seg = <<>> THEN s ELSE seg

\* forgiving-base64: drop up to two trailing "=" when the length is a multiple of 4
StripPadding(s) ==
  LET n == Len(s)
  IN IF StrLen(s) % 4 # 0 THEN s
     ELSE IF n >= 2 /\ s[n] = "=" /\ s[n - 1] = "=" THEN SubSeq(s, 1, n - 2)
     ELSE IF n >= 1 /\ s[n] = "=" THEN SubSeq(s, 1, n - 1)
     ELSE s

\* atob(s): the number of bytes decoded, -1 when atob throws
Atob(s) ==
  LET d == StripPadding(s)
  IN IF StrLen(d) % 4 = 1 THEN -1
     ELSE IF \E k \in 1..Len(d) : d[k] # "A" THEN -1
     ELSE (StrLen(d) * 6) \div 8

\* (await fetch(dataUrl)).blob(): the data: URL processor
DataUrlBlob(s) ==
  LET rest == Tail(s)
      c == IndexOfComma(rest)
      mime == SubSeq(rest, 1, c - 1)
      body == SubSeq(rest, c + 1, Len(rest))
      isB64 == mime # <<>> /\ mime[Len(mime)] = ";base64"
      essence == IF isB64 THEN SubSeq(mime, 1, Len(mime) - 1) ELSE mime
      bytes == IF isB64 THEN Atob(body) ELSE StrLen(body)
  IN IF c = 0 \/ bytes < 0 THEN NoBlob
     ELSE [bytes |-> bytes,
           type |-> IF essence = <<"image/gif">> THEN "image/gif"
                    ELSE "text/plain;charset=US-ASCII"]

\* the first block of uploadToBlob: the Blob built from the input, NoBlob when
\* the decoding throws
ToBlob(base64Data, contentType) ==
  IF StartsWithData(base64Data)
    THEN DataUrlBlob(base64Data)
    ELSE LET n == Atob(RawPayload(base64Data))
         IN IF n < 0 THEN NoBlob ELSE [bytes |-> n, type |-> contentType]

----------------------------------------------------------------------------
(* State after module load: no request has called anything yet *)

Init ==
  /\ pc = [i \in Requests |-> "idle"]
  /\ op = [i \in Requests |-> "none"]
  /\ args = [i \in Requests |-> NoArgs]
  /\ user = [i \in Requests |-> Null]
  /\ blob = [i \in Requests |-> NoBlob]
  /\ retryCount = [i \in Requests |-> 0]
  /\ lastError = [i \in Requests |-> NoError]
  /\ result = [i \in Requests |-> Pending]
  /\ log = [i \in Requests |-> <<>>]
  /\ tasks = [i \in Requests |-> <<>>]
  /\ db = [orders |-> [o \in OrderIds |-> "assigned"], stop_events |-> <<>>,
           pods |-> <<>>, positions |-> <<>>, blobs |-> <<>>, journal |-> <<>>]
  /\ env \in {"true", "false", Undefined}

----------------------------------------------------------------------------
(* Control transfers shared by the functions *)

\* return <res>
Return(i, res, lg) ==
  /\ pc' = [pc EXCEPT ![i] = "done"]
  /\ result' = [result EXCEPT ![i] = res]
  /\ log' = [log EXCEPT ![i] = lg]
  /\ UNCHANGED <<retryCount, lastError>>

\* a raise outside the retry loop's try: caught by the outermost catch
Caught(i, lg) ==
  /\ pc' = [pc EXCEPT ![i] = OuterCatch(op[i]).pc]
  /\ result' = [result EXCEPT ![i] = OuterCatch(op[i]).result]
  /\ log' = [log EXCEPT ![i] = lg]
  /\ UNCHANGED <<retryCount, lastError>>

\* the tail of a failed loop iteration (the same code after `if (!error)` and
\* in the loop's catch): record the error, count the attempt, then either start
\* the backoff timer or leave the loop and return the failure
AttemptFailed(i, e, lg) ==
  LET rc == retryCount[i] + 1
      le == NextLastError(lastError[i], e)
  IN /\ lastError' = [lastError EXCEPT ![i] = le]
     /\ retryCount' = [retryCount EXCEPT ![i] = rc]
     /\ IF Sleeps(rc)
          THEN /\ pc' = [pc EXCEPT ![i] = "sleep"]
               /\ log' = [log EXCEPT ![i] =
                            Append(lg, Entry("sleep", "timer", TRUE, NoError, [ms |-> BackoffMs(rc)]))]
               /\ UNCHANGED result
          ELSE IF WhileCond(rc)
          THEN /\ pc' = [pc EXCEPT ![i] = "loop"]
               /\ log' = [log EXCEPT ![i] = lg]
               /\ UNCHANGED result
          ELSE /\ pc' = [pc EXCEPT ![i] = "done"]
               /\ result' = [result EXCEPT ![i] = Exhausted(op[i], le)]
               /\ log' = [log EXCEPT ![i] = lg]

----------------------------------------------------------------------------
(* Steps common to updateStopStatus, savePOD and updateDriverPosition *)

\* a function is called with some arguments
Invoke(i) ==
  /\ pc[i] = "idle"
  /\ \E o \in Ops : \E a \in ArgsOf(o) :
       /\ op' = [op EXCEPT ![i] = o]
       /\ args' = [args EXCEPT ![i] = a]
       /\ pc' = [pc EXCEPT ![i] = IF o = "uploadToBlob" THEN "normalize" ELSE "createServerClient"]
  /\ UNCHANGED <<user, blob, retryCount, lastError, result, log, tasks, db, env>>

\* const supabase = await createServerClient()
CreateClient(i) ==
  /\ pc[i] = "createServerClient"
  /\ \/ /\ pc' = [pc EXCEPT ![i] = "getUser"]
        /\ UNCHANGED <<result, log, retryCount, lastError>>
     \/ Caught(i, log[i])
  /\ UNCHANGED <<op, args, user, blob, tasks, db, env>>

\* what supabase.auth.getUser() can resolve to
IdentityAnswers ==
  {[user |-> "d1", error |-> NoError], [user |-> Null, error |-> NoError]}
    \cup {[user |-> Null, error |-> e] : e \in ErrorValues}

\* const { data: { user }, error: authError } = await supabase.auth.getUser()
\* and the session check that follows it
GetUser(i) ==
  /\ pc[i] = "getUser"
  /\ \/ \E r \in IdentityAnswers :
          LET lg == Append(log[i], Entry("identity", "auth", ~AuthFailed(r.error, r.user), r.error, NoArgs))
          IN /\ user' = [user EXCEPT ![i] = r.user]
             /\ IF AuthFailed(r.error, r.user)
                  THEN Return(i, AuthExpired(op[i]), lg)
                  ELSE /\ pc' = [pc EXCEPT ![i] =
                                   IF op[i] = "updateDriverPosition" THEN "upsert" ELSE "loop"]
                       /\ log' = [log EXCEPT ![i] = lg]
                       /\ UNCHANGED <<result, retryCount, lastError>>
     \/ \E e \in Raised :
          /\ Caught(i, Append(log[i], Entry("identity", "auth", FALSE, e, NoArgs)))
          /\ UNCHANGED user
  /\ UNCHANGED <<op, args, blob, tasks, db, env>>

\* the backoff timer fires and the while condition is evaluated again
Sleep(i) ==
  /\ pc[i] = "sleep"
  /\ IF WhileCond(retryCount[i])
       THEN /\ pc' = [pc EXCEPT ![i] = "loop"]
            /\ UNCHANGED result
       ELSE /\ pc' = [pc EXCEPT ![i] = "done"]
            /\ result' = [result EXCEPT ![i] = Exhausted(op[i], lastError[i])]
  /\ UNCHANGED <<op, args, user, blob, retryCount, lastError, log, tasks, db, env>>

\* revalidatePath("/driver"); return { success: true }   -- inside the loop's
\* try, so a raise of revalidatePath lands in the loop's catch
RevalidateAndReturn(i, lg) ==
  \/ Return(i, [success |-> TRUE],
            Append(lg, Entry("revalidate", "/driver", TRUE, NoError, NoArgs)))
  \/ \E e \in Raised :
       AttemptFailed(i, e, Append(lg, Entry("revalidate", "/driver", FALSE, e, NoArgs)))

----------------------------------------------------------------------------
(* updateStopStatus *)

\* await supabase.from("orders").update({status, updated_at}).eq("id", orderId)
UpdateOrder(i) ==
  /\ pc[i] = "loop"
  /\ op[i] = "updateStopStatus"
  /\ LET row == [id |-> args[i].orderId, status |-> args[i].status]
     IN \/ \E error \in {NoError} \cup ErrorValues :
             LET lg == Append(log[i], Entry("write", "orders", error = NoError, error, row))
             IN /\ db' = IF error = NoError
                           THEN [db EXCEPT !.orders[row.id] = row.status,
                                           !.journal = Append(@, Applied("orders", i))]
                           ELSE db
                /\ IF UpdateOk(error)
                     THEN /\ pc' = [pc EXCEPT ![i] = "audit"]
                          /\ log' = [log EXCEPT ![i] = lg]
                          /\ UNCHANGED <<result, retryCount, lastError>>
                     ELSE AttemptFailed(i, error, lg)
        \/ \E e \in Raised :
             /\ AttemptFailed(i, e, Append(log[i], Entry("write", "orders", FALSE, e, row)))
             /\ UNCHANGED db
  /\ UNCHANGED <<op, args, user, blob, tasks, env>>

\* { order_id: orderId, driver_id: user.id, event_type: status, notes }
StopEventAlwaysDelivered(orderId, driverId, status, notes) ==
  [order_id |-> orderId, driver_id |-> driverId, event_type |-> "delivered", notes |-> notes]

StopEvent(orderId, driverId, status, notes) ==
  [order_id |-> orderId, driver_id |-> driverId, event_type |-> status, notes |-> notes]

\* await supabase.from("stop_events").insert({...}), then revalidatePath and
\* the return, all inside the loop's try
InsertStopEvent(i) ==
  /\ pc[i] = "audit"
  /\ LET row == StopEvent(args[i].orderId, user[i], args[i].status, args[i].notes)
     IN \/ \E eventError \in {NoError} \cup ErrorValues :
             /\ db' = IF eventError = NoError
                        THEN [db EXCEPT !.stop_events = Append(@, row),
                                        !.journal = Append(@, Applied("stop_events", i))]
                        ELSE db
             /\ RevalidateAndReturn(i,
                  Append(log[i], Entry("write", "stop_events", eventError = NoError, eventError, row)))
        \/ \E e \in Raised :
             /\ AttemptFailed(i, e, Append(log[i], Entry("write", "stop_events", FALSE, e, row)))
             /\ UNCHANGED db
  /\ UNCHANGED <<op, args, user, blob, tasks, env>>

----------------------------------------------------------------------------
(* updateDriverPosition *)

\* await supabase.rpc("upsert_driver_position", {...}) and the returns after it
UpsertPosition(i) ==
  /\ pc[i] = "upsert"
  /\ LET row == [p_driver_id |-> user[i], p_lat |-> args[i].lat, p_lng |-> args[i].lng,
                 p_accuracy |-> AccuracyOrNull(args[i].accuracy)]
     IN \/ \E error \in {NoError} \cup ErrorValues :
             /\ db' = IF error = NoError
                        THEN [db EXCEPT !.positions = <<row>>,
                                        !.journal = Append(@, Applied("positions", i))]
                        ELSE db
             /\ Return(i,
                  IF error # NoError
                    THEN [success |-> FALSE, error |-> "Failed to update position"]
                    ELSE [success |-> TRUE],
                  Append(log[i], Entry("write", "positions", error = NoError, error, row)))
        \/ \E e \in Raised :
             /\ Caught(i, Append(log[i], Entry("write", "positions", FALSE, e, row)))
             /\ UNCHANGED db
  /\ UNCHANGED <<op, args, user, blob, tasks, env>>

----------------------------------------------------------------------------
(* savePOD *)

\* what insert(...).select("id").single() can resolve to: the new row (whose
\* id the store generates), or no row with or without an error
InsertAnswers(nextId) ==
  {[data |-> [id |-> n], error |-> NoError] : n \in {0, nextId}}
    \cup {[data |-> NoRow, error |-> e] : e \in {NoError} \cup ErrorValues}

\* catch (emailError) { console.warn(...) }: the call goes on after the try
EmailSetupEscapes(i, e, lg) == AttemptFailed(i, e, lg)

EmailSetupFailed(i, e, lg) == RevalidateAndReturn(i, lg)

\* fetch("/api/pod-email", {...}).then(...).catch(...): fetch either throws
\* while the request is set up (caught by the try around it) or returns a
\* promise nobody awaits
StartEmail(i, podData, lg) ==
  \/ /\ tasks' = [tasks EXCEPT ![i] =
                    Append(@, [orderId |-> args[i].orderId, podId |-> podData.id, state |-> "inflight"])]
     /\ RevalidateAndReturn(i, Append(lg, Entry("dispatch", "/api/pod-email", TRUE, NoError, podData)))
  \/ \E e \in {Err("raised", "timeout")} :
       /\ UNCHANGED tasks
       /\ EmailSetupFailed(i, e, Append(lg, Entry("dispatch", "/api/pod-email", FALSE, e, podData)))

\* await supabase.from("pods").insert({...}).select("id").single(), then the
\* email dispatch, revalidatePath and the return, all inside the loop's try
InsertPOD(i) ==
  /\ pc[i] = "loop"
  /\ op[i] = "savePOD"
  /\ LET row == [order_id |-> args[i].orderId, driver_id |-> user[i],
                 photo_url |-> args[i].photoUrl, signature_url |-> args[i].signatureUrl,
                 notes |-> PodNotes(args[i].recipientName, args[i].notes)]
     IN \/ \E r \in InsertAnswers(Len(db.pods) + 1) :
             LET stored == r.data # NoRow
                 lg == Append(log[i], Entry("write", "pods", stored, r.error, row))
             IN /\ db' = IF stored
                           THEN [db EXCEPT !.pods = Append(@, row),
                                           !.journal = Append(@, Applied("pods", i))]
                           ELSE db
                /\ IF InsertOk(r.error, IF r.data = NoRow THEN Null ELSE "row")
                     THEN IF EmailEnabled(r.data, env)
                            THEN StartEmail(i, r.data, lg)
                            ELSE RevalidateAndReturn(i, lg) /\ UNCHANGED tasks
                     ELSE AttemptFailed(i, r.error, lg) /\ UNCHANGED tasks
        \/ \E e \in Raised :
             /\ AttemptFailed(i, e, Append(log[i], Entry("write", "pods", FALSE, e, row)))
             /\ UNCHANGED <<db, tasks>>
  /\ UNCHANGED <<op, args, user, blob, env>>

\* how a detached email promise can settle: a JSON body with ok true, a JSON
\* body with ok false, a non-JSON body (wrapped as ok false), or a rejection of
\* fetch / r.json() / r.text() (handled by .catch)
Settled == {"ok", "failed", "nonjson", "rejected"}

\* the .then / .catch callbacks of one detached email promise run
SettleEmail(i) ==
  /\ \E k \in 1..Len(tasks[i]) : \E st \in Settled :
       /\ tasks[i][k].state = "inflight"
       /\ tasks' = [tasks EXCEPT ![i][k].state = st]
  /\ UNCHANGED <<pc, op, args, user, blob, retryCount, lastError, result, log, db, env>>

----------------------------------------------------------------------------
(* uploadToBlob *)

\* the decoding block before the retry loop; a throw lands in the outermost catch
Normalize(i) ==
  /\ pc[i] = "normalize"
  /\ LET b == ToBlob(args[i].base64Data, args[i].contentType)
     IN IF b = NoBlob
          THEN Caught(i, log[i]) /\ UNCHANGED blob
          ELSE /\ blob' = [blob EXCEPT ![i] = b]
               /\ pc' = [pc EXCEPT ![i] = "loop"]
               /\ UNCHANGED <<result, log, retryCount, lastError>>
  /\ UNCHANGED <<op, args, user, tasks, db, env>>

\* result.url: the reference the blob store hands out for a pathname
BlobUrls(filename) == {"https://blob/" \o filename, "https://blob/x7-" \o filename}

\* await put(filename, blob, {access: "public", contentType}) and the return
Put(i) ==
  /\ pc[i] = "loop"
  /\ op[i] = "uploadToBlob"
  /\ LET obj(u) == [pathname |-> args[i].filename, bytes |-> blob[i].bytes,
                    contentType |-> args[i].contentType, url |-> u]
     IN \/ \E u \in BlobUrls(args[i].filename) :
             /\ db' = [db EXCEPT !.blobs = Append(@, obj(u)),
                                !.journal = Append(@, Applied("blob", i))]
             /\ Return(i, [url |-> u, error |-> Null],
                       Append(log[i], Entry("write", "blob", TRUE, NoError, obj(u))))
        \/ \E e \in Raised :
             /\ AttemptFailed(i, e, Append(log[i], Entry("write", "blob", FALSE, e, obj(Null))))
             /\ UNCHANGED db
  /\ UNCHANGED <<op, args, user, blob, tasks, env>>

----------------------------------------------------------------------------

Step(i) ==
  \/ CreateClient(i)
  \/ GetUser(i)
  \/ Sleep(i)
  \/ UpdateOrder(i)
  \/ InsertStopEvent(i)
  \/ UpsertPosition(i)
  \/ InsertPOD(i)
  \/ Normalize(i)
  \/ Put(i)

\* one request at a time: calls share no state but the store, so a single
\* call shows everything a property of one invocation can depend on
Next ==
  \/ Invoke("r1")
  \/ Step("r1")
  \/ SettleEmail("r1")

Spec == Init /\ [][Next]_vars

\* every collaborator call of a running invocation eventually returns or raises
FairSpec == Spec /\ WF_vars(Step("r1"))

----------------------------------------------------------------------------
(* Reading the log of a request *)

PrimaryTarget(o) ==
  IF o = "updateStopStatus" THEN "orders"
  ELSE IF o = "savePOD" THEN "pods"
  ELSE IF o = "uploadToBlob" THEN "blob"
  ELSE "positions"

IsWrite(i, k) == log[i][k].ev = "write"

IsPrimary(i, k) == IsWrite(i, k) /\ log[i][k].tgt = PrimaryTarget(op[i])

PrimaryIdx(i) == {k \in DOMAIN log[i] : IsPrimary(i, k)}

PrimaryOks(i) == {k \in PrimaryIdx(i) : log[i][k].ok}

SleepIdx(i) == {k \in DOMAIN log[i] : log[i][k].ev = "sleep"}

IdentityIdx(i) == {k \in DOMAIN log[i] : log[i][k].ev = "identity"}

IsSecondary(i, k) ==
  \/ log[i][k].ev \in {"revalidate", "dispatch"}
  \/ IsWrite(i, k) /\ log[i][k].tgt = "stop_events"

Before(S, k) == {j \in S : j < k}

Retried == {"updateStopStatus", "savePOD", "uploadToBlob"}

----------------------------------------------------------------------------
(* Claims *)

\* C1: an updateStopStatus call in which a primary status write succeeded
\* returns {success: true} however the stop_events write fails.  Stated for
\* the calls in which revalidatePath did not raise, so that only the audit
\* write can be at fault.
C1_AuditFailureKeepsSuccess ==
  \A i \in Requests :
    ( /\ pc[i] = "done"
      /\ op[i] = "updateStopStatus"
      /\ PrimaryOks(i) # {}
      /\ \A k \in DOMAIN log[i] : log[i][k].ev = "revalidate" => log[i][k].ok )
    => result[i] = [success |-> TRUE]

\* C2: in every call, each write attempt is preceded by exactly one identity
\* check, which passed, and no call makes more than one identity check.
C2_IdentityBeforeWrites ==
  \A i \in Requests :
    /\ Cardinality(IdentityIdx(i)) <= 1
    /\ \A k \in DOMAIN log[i] :
         IsWrite(i, k) =>
           /\ Cardinality(Before(IdentityIdx(i), k)) = 1
           /\ \A j \in Before(IdentityIdx(i), k) : log[i][j].ok

\* C3: a retried function attempts its primary write at most 3 times and
\* sleeps at most twice; the k-th sleep lasts 1000*k ms and starts after
\* exactly k attempts, so none follows the third attempt.
C3_BoundedRetry ==
  \A i \in Requests :
    op[i] \in Retried =>
      /\ Cardinality(PrimaryIdx(i)) <= 3
      /\ Cardinality(SleepIdx(i)) <= 2
      /\ \A k \in SleepIdx(i) :
           LET nth == Cardinality(Before(SleepIdx(i), k)) + 1
           IN /\ log[i][k].val.ms = 1000 * nth
              /\ Cardinality(Before(PrimaryIdx(i), k)) = nth
              /\ nth < 3

C3_Witness ==
  \E i \in Requests :
    /\ pc[i] = "done"
    /\ op[i] \in Retried
    /\ Cardinality(PrimaryIdx(i)) = 3
    /\ PrimaryOks(i) = {}
    /\ Cardinality(SleepIdx(i)) = 2

\* C4: a savePOD call that dispatched the notification after a successful
\* insert returns {success: true}, whatever becomes of the dispatch.
C4_SuccessDespiteDispatch ==
  \A i \in Requests :
    (pc[i] = "done" /\ op[i] = "savePOD" /\ PrimaryOks(i) # {} /\ tasks[i] # <<>>)
      => result[i] = [success |-> TRUE]

\* C5: the audit write, the invalidation signal and the notification dispatch
\* occur only after a successful primary write of the same call.
C5_SecondaryAfterPrimary ==
  \A i \in Requests :
    \A k \in DOMAIN log[i] :
      IsSecondary(i, k) => Before(PrimaryOks(i), k) # {}

C5_Witness ==
  \E i \in Requests :
    /\ pc[i] = "done"
    /\ \E k \in DOMAIN log[i] : IsWrite(i, k) /\ log[i][k].tgt = "stop_events"
    /\ \E k \in DOMAIN log[i] : log[i][k].ev = "revalidate"

\* C6: with a valid identity, if the primary write of updateStopStatus or
\* savePOD first succeeds on attempt k, the call reports success after exactly
\* k primary attempts and the k-1 sleeps 1000, 2000, ...
C6_SuccessOnAttemptK ==
  \A i \in Requests :
    (pc[i] = "done" /\ op[i] \in {"updateStopStatus", "savePOD"} /\ PrimaryOks(i) # {})
      => LET first == CHOOSE k \in PrimaryOks(i) : \A j \in PrimaryOks(i) : k <= j
             n == Cardinality(Before(PrimaryIdx(i), first)) + 1
         IN /\ result[i] = [success |-> TRUE]
            /\ Cardinality(PrimaryIdx(i)) = n
            /\ Cardinality(SleepIdx(i)) = n - 1
            /\ \A k \in SleepIdx(i) :
                 log[i][k].val.ms = 1000 * (Cardinality(Before(SleepIdx(i), k)) + 1)

\* C7: when all 3 primary attempts of updateStopStatus or savePOD fail, the
\* call returns {success: false} whose message is the fixed prefix followed by
\* the message of the third attempt's error, or by "Network error" when that
\* error carries none.
C7_LastErrorMessage ==
  \A i \in Requests :
    ( /\ pc[i] = "done"
      /\ op[i] \in {"updateStopStatus", "savePOD"}
      /\ Cardinality(PrimaryIdx(i)) = 3
      /\ PrimaryOks(i) = {} )
    => LET last == CHOOSE k \in PrimaryIdx(i) : \A j \in PrimaryIdx(i) : j <= k
           m == log[i][last].err.message
           text == IF m = Undefined \/ m = "" THEN "Network error" ELSE m
           prefix == IF op[i] = "savePOD" THEN "Failed to save proof of delivery: "
                     ELSE "Failed to update order status: "
       IN result[i] = [success |-> FALSE, error |-> prefix \o text]

C7_Witness ==
  \E i \in Requests :
    /\ pc[i] = "done"
    /\ op[i] = "savePOD"
    /\ Cardinality(PrimaryIdx(i)) = 3
    /\ PrimaryOks(i) = {}
    /\ log[i][1 + Len(log[i]) - 1].err.message = "timeout"
    /\ \E k \in PrimaryIdx(i) : log[i][k].err.message = Undefined
    /\ result[i].error = "Failed to save proof of delivery: timeout"

\* C8: an upload whose input is malformed or decodes to zero bytes never
\* reaches the blob store and never sleeps, and returns a failure.
C8_BadPayloadNotUploaded ==
  \A i \in Requests :
    ( /\ op[i] = "uploadToBlob"
      /\ LET b == ToBlob(args[i].base64Data, args[i].contentType)
         IN b = NoBlob \/ b.bytes = 0 )
    => /\ PrimaryIdx(i) = {}
       /\ SleepIdx(i) = {}
       /\ pc[i] = "done" => result[i].url = Null

\* C9: every returned value has the ActionResponse shape
\* {success: true, data?} | {success: false, error, code?}.
C9_OutcomeShape ==
  \A i \in Requests :
    pc[i] = "done" =>
      /\ "success" \in DOMAIN result[i]
      /\ \/ result[i].success /\ DOMAIN result[i] \subseteq {"success", "data"}
         \/ /\ ~result[i].success
            /\ "error" \in DOMAIN result[i]
            /\ DOMAIN result[i] \subseteq {"success", "error", "code"}

\* a raise reached the outermost catch: createServerClient, getUser or the
\* position upsert raised, or the payload decoding threw
UnanticipatedRaise(i) ==
  /\ pc[i] \in {"done", "raised"}
  /\ \/ log[i] = <<>>
     \/ /\ log[i] # <<>>
        /\ log[i][Len(log[i])].err.kind = "raised"
        /\ \/ log[i][Len(log[i])].ev = "identity"
           \/ log[i][Len(log[i])].tgt = "positions"

\* C10: no raise leaves a call, a call that has started eventually returns an
\* outcome, and a raise nobody anticipated yields the generic outcome of the
\* function, which has no code.
C10_AlwaysReturns ==
  /\ [](\A i \in Requests :
          /\ pc[i] # "raised"
          /\ pc[i] = "done" => result[i] # Pending
          /\ UnanticipatedRaise(i) =>
               /\ "code" \notin DOMAIN result[i]
               /\ result[i].error =
                    IF op[i] = "uploadToBlob" THEN "Failed to upload file"
                    ELSE IF op[i] = "updateDriverPosition" THEN "An unexpected error occurred"
                    ELSE "An unexpected error occurred. Please try again.")
  /\ \A i \in Requests : (pc[i] # "idle") ~> (pc[i] = "done")

C10_Witness ==
  \E i \in Requests :
    /\ pc[i] = "done"
    /\ op[i] = "savePOD"
    /\ log[i] # <<>>
    /\ log[i][Len(log[i])].ev = "identity"
    /\ log[i][Len(log[i])].err.kind = "raised"

\* the functions that start with the session check
Guarded == {"updateStopStatus", "savePOD", "updateDriverPosition"}

\* C11: a guarded function whose identity provider answered with an error, or
\* with no error and no user, returns a failure with code AUTH_EXPIRED (the
\* same code in both cases); an outcome carries that code only when the
\* provider answered so, and then the call attempted no write.
C11_AuthExpiredIffNoIdentity ==
  \A i \in Requests :
    pc[i] = "done" =>
      LET answered == {k \in IdentityIdx(i) : log[i][k].err.kind # "raised"}
          failed == \E k \in answered : log[i][k].err.kind = "value" \/ user[i] = Null
          coded == "code" \in DOMAIN result[i]
      IN /\ (op[i] \in Guarded /\ failed) =>
              (coded /\ result[i].code = "AUTH_EXPIRED" /\ ~result[i].success)
         /\ coded =>
              /\ result[i].code = "AUTH_EXPIRED"
              /\ op[i] \in Guarded
              /\ failed
              /\ \A k \in DOMAIN log[i] : ~IsWrite(i, k)

C11_Witness ==
  \E i \in Requests :
    /\ pc[i] = "done"
    /\ op[i] = "updateDriverPosition"
    /\ \E k \in IdentityIdx(i) : log[i][k].err = NoError
    /\ user[i] = Null
    /\ result[i].code = "AUTH_EXPIRED"

\* C12: whenever a primary write attempt of any function fails and it was not
\* the third attempt, the call sleeps and then attempts the write again before
\* it returns.
C12_EveryPrimaryWriteRetried ==
  \A i \in Requests :
    pc[i] = "done" =>
      \A k \in PrimaryIdx(i) :
        (~log[i][k].ok /\ Cardinality(Before(PrimaryIdx(i), k)) + 1 < 3) =>
          \E s \in SleepIdx(i) : \E j \in PrimaryIdx(i) : k < s /\ s < j

\* C13: every pods insert of a savePOD call carries the same notes: with a
\* recipient name (a non-empty one; an empty name counts as none) they are
\* "Recipient: <name>", a newline and the caller's notes (nothing when none
\* were given); without one they are the caller's notes as given.
C13_RecipientPrefix ==
  \A i \in Requests :
    op[i] = "savePOD" =>
      LET name == args[i].recipientName
          notes == args[i].notes
          expected == IF name = Undefined \/ name = "" THEN notes
                      ELSE "Recipient: " \o name \o "\n" \o
                           (IF notes = Undefined THEN "" ELSE notes)
      IN /\ \A k \in PrimaryIdx(i) : log[i][k].val.notes = expected
         /\ \A k \in DOMAIN db.pods : db.pods[k].notes = expected

C13_Witness ==
  \E i \in Requests :
    /\ pc[i] = "done"
    /\ op[i] = "savePOD"
    /\ args[i].recipientName = "Jane Doe"
    /\ args[i].notes = Undefined
    /\ Cardinality(PrimaryIdx(i)) = 3
    /\ Len(db.pods) = 1
    /\ db.pods[1].notes = "Recipient: Jane Doe\n"

----------------------------------------------------------------------------
(* The same savePOD call under the two settings of the feature flag: request *)
(* r1 is served with the flag enabled; the flag is then switched off and     *)
(* request r2 repeats the call, the collaborators answering each of its      *)
(* calls as they answered the same call of r1.                               *)

\* the log without the notification dispatches
Undispatched(lg) == SelectSeq(lg, LAMBDA e : e.ev # "dispatch")

\* createServerClient raised: the call returned without any collaborator call
ClientRaised(i) == pc[i] = "done" /\ log[i] = <<>>

\* lg answers every call as the reference log answers the same call
AnsweredAs(lg, ref) ==
  \A k \in 1..Len(lg) :
    (k <= Len(ref) /\ ref[k].ev = lg[k].ev /\ ref[k].tgt = lg[k].tgt) =>
      (ref[k].ok = lg[k].ok /\ ref[k].err = lg[k].err)

TwinInit == Init /\ env = "true"

TwinInvoke ==
  /\ Invoke("r1")
  /\ op'["r1"] = "savePOD"
  /\ args'["r1"].notes = "left at door"
  /\ args'["r1"].recipientName = "Jane Doe"

Redeploy ==
  /\ pc["r1"] = "done"
  /\ pc["r2"] = "idle"
  /\ env = "true"
  /\ env' \in {"false", Undefined}
  /\ op' = [op EXCEPT !["r2"] = op["r1"]]
  /\ args' = [args EXCEPT !["r2"] = args["r1"]]
  /\ pc' = [pc EXCEPT !["r2"] = "createServerClient"]
  /\ UNCHANGED <<user, blob, retryCount, lastError, result, log, tasks, db>>

Replay ==
  /\ \/ CreateClient("r2")
     \/ GetUser("r2")
     \/ InsertPOD("r2")
     \/ Sleep("r2")
  /\ pc["r2"] = "createServerClient" => (pc'["r2"] = "done" <=> ClientRaised("r1"))
  /\ AnsweredAs(Undispatched(log'["r2"]), Undispatched(log["r1"]))

TwinNext ==
  \/ TwinInvoke
  \/ CreateClient("r1")
  \/ GetUser("r1")
  \/ InsertPOD("r1")
  \/ Sleep("r1")
  \/ SettleEmail("r1")
  \/ Redeploy
  \/ Replay

TwinSpec == TwinInit /\ [][TwinNext]_vars

\* C14: served with the flag absent or false, savePOD dispatches nothing; and
\* its store writes, backoffs, invalidation signal and returned outcome are
\* those of the same call served with the flag enabled, the collaborators
\* answering alike.
C14_FlagOnlyGatesDispatch ==
  LET on == Undispatched(log["r1"])
      off == Undispatched(log["r2"])
  IN /\ tasks["r2"] = <<>>
     /\ off = log["r2"]
     /\ \A k \in 1..Len(off) : k <= Len(on) /\ off[k] = on[k]
     /\ pc["r2"] = "done" => (off = on /\ result["r2"] = result["r1"])

C14_Witness ==
  /\ pc["r2"] = "done"
  /\ env = Undefined
  /\ Len(tasks["r1"]) = 2
  /\ Cardinality(PrimaryIdx("r2")) = 3
  /\ result["r2"] = [success |-> TRUE]

AuditIdx(i) == {k \in DOMAIN log[i] : IsWrite(i, k) /\ log[i][k].tgt = "stop_events"}

\* C15: an updateStopStatus call whose status write succeeded attempts the
\* stop_events write exactly once, however that write fails; a call whose
\* status write never succeeded attempts it zero times.
C15_AuditAttemptedOnce ==
  \A i \in Requests :
    (pc[i] = "done" /\ op[i] = "updateStopStatus") =>
      Cardinality(AuditIdx(i)) = IF PrimaryOks(i) # {} THEN 1 ELSE 0

\* C16: in a savePOD or updateStopStatus call no primary write is attempted
\* after one has succeeded, so at most one succeeds, at most one POD is stored
\* and at most one notification is dispatched, with the id of that POD.
C16_OnePrimarySuccess ==
  \A i \in Requests :
    op[i] \in {"updateStopStatus", "savePOD"} =>
      /\ \A k \in PrimaryOks(i) : \A j \in PrimaryIdx(i) : j <= k
      /\ Cardinality(PrimaryOks(i)) <= 1
      /\ Len(tasks[i]) <= 1
      /\ \A t \in DOMAIN tasks[i] : tasks[i][t].podId = Len(db.pods)

\* C17: an upload is stored with the data URL's own content type when the
\* input is a data URL that declares one, and with the contentType argument
\* when the input is raw base64.
C17_StoredContentType ==
  \A i \in Requests :
    op[i] = "uploadToBlob" =>
      \A k \in PrimaryIdx(i) :
        IF StartsWithData(args[i].base64Data)
          THEN blob[i].type = "image/gif" => log[i][k].val.contentType = "image/gif"
          ELSE log[i][k].val.contentType = args[i].contentType

\* C18: when all 3 put attempts raise, uploadToBlob returns the one fixed
\* message whatever the store's errors were; when a put succeeds, it returns
\* the url that put answered with, and that put is the call's last step.
C18_UploadOutcome ==
  \A i \in Requests :
    (pc[i] = "done" /\ op[i] = "uploadToBlob") =>
      /\ (Cardinality(PrimaryIdx(i)) = 3 /\ PrimaryOks(i) = {}) =>
           result[i] = [url |-> Null, error |-> "Failed to upload file after multiple attempts"]
      /\ PrimaryOks(i) # {} =>
           /\ PrimaryOks(i) = {Len(log[i])}
           /\ result[i] = [url |-> log[i][Len(log[i])].val.url, error |-> Null]

C18_Witness ==
  \E i \in Requests :
    /\ pc[i] = "done"
    /\ op[i] = "uploadToBlob"
    /\ Cardinality(PrimaryIdx(i)) = 3
    /\ PrimaryOks(i) = {}
    /\ log[i][Len(log[i])].err.message = "timeout"
    /\ result[i].url = Null

----------------------------------------------------------------------------
(* Two concurrent successful updateStopStatus calls on the same order: r1    *)
(* reports "delivered", r2 reports "failed".  The session is valid; a status *)
(* update, an audit insert or revalidatePath may fail, by error value or by  *)
(* raising.                                                                  *)

\* the collaborator answers a call that ends in success can have seen
Calm(lg) ==
  \A k \in 1..Len(lg) :
    \/ lg[k].ok
    \/ lg[k].tgt \in {"orders", "stop_events", "/driver"} /\ lg[k].err.message = "timeout"

ConcInvoke(i) ==
  /\ Invoke(i)
  /\ op'[i] = "updateStopStatus"
  /\ args'[i].status = (IF i = "r1" THEN "delivered" ELSE "failed")
  /\ args'[i].notes = Undefined

ConcStep(i) ==
  /\ \/ CreateClient(i)
     \/ GetUser(i)
     \/ UpdateOrder(i)
     \/ InsertStopEvent(i)
     \/ Sleep(i)
  /\ Calm(log'[i])
  /\ result'[i] # Unexpected("updateStopStatus")

ConcNext == \E i \in Requests : ConcInvoke(i) \/ ConcStep(i)

\* updateStopStatus does not read the feature flag
ConcInit == Init /\ env = Undefined

ConcSpec == ConcInit /\ [][ConcNext]_vars

BothSucceeded == \A i \in Requests : pc[i] = "done" /\ result[i] = [success |-> TRUE]

\* the request whose write to a table the store applied last
LastBy(tbl) ==
  LET ks == {k \in DOMAIN db.journal : db.journal[k].tbl = tbl}
  IN db.journal[CHOOSE k \in ks : \A j \in ks : j <= k].by

\* C19 as stated: once both calls have returned success, the event_type of
\* the last audit record equals the order's final status.
C19_AuditMatchesStatus ==
  (BothSucceeded /\ db.stop_events # <<>>) =>
    db.stop_events[Len(db.stop_events)].event_type = db.orders["o1"]

\* C19 amended: the last audit record agrees with the final status exactly
\* when the call whose status update was applied last also wrote the last
\* audit record.
C19_AuditMatchesIffSameLast ==
  (BothSucceeded /\ db.stop_events # <<>>) =>
    ( db.stop_events[Len(db.stop_events)].event_type = db.orders["o1"]
        <=> LastBy("orders") = LastBy("stop_events") )

C19_Witness ==
  /\ BothSucceeded
  /\ Len(db.stop_events) = 2
  /\ LastBy("orders") = "r2"
  /\ LastBy("stop_events") = "r2"
  /\ db.stop_events[1].event_type = "delivered"
  /\ db.journal[2].by = "r2"
  /\ db.journal[3].by = "r1"

----------------------------------------------------------------------------
(* C20 *)

\* C20: every upsert made by updateDriverPosition carries lat and lng
\* unchanged and the caller's accuracy whenever one is supplied, 0 included;
\* null is passed only when no accuracy is supplied
C20_PositionPayload ==
  \A i \in Requests :
    op[i] = "updateDriverPosition" =>
      \A k \in 1..Len(log[i]) :
        (log[i][k].ev = "write" /\ log[i][k].tgt = "positions") =>
          /\ log[i][k].val.p_lat = args[i].lat
          /\ log[i][k].val.p_lng = args[i].lng
          /\ log[i][k].val.p_accuracy =
               (IF args[i].accuracy = NotSupplied THEN NullNumber ELSE args[i].accuracy)

====
